---- MODULE Spec2Model ----
(***************************************************************************)
(* Model of the bound-tree visitor (il/boundTree_visitor.go) and of the    *)
(* expression binder (il binder: bindCall, bindOutput, bindVariableAccess, *)
(* ...) of pgavlin/firewalker.                                             *)
(*                                                                         *)
(* The visitor is a state machine: the Go call stack of VisitBoundNode is  *)
(* an explicit sequence of frames, the bound tree is a heap of nodes that  *)
(* the walk mutates in place, and the two caller-supplied visitors are     *)
(* nondeterministic choices over what a BoundNodeVisitor can return.       *)
(* The binder is a pure function, applied to inputs drawn in BindInit.     *)
(***************************************************************************)
EXTENDS Integers, Sequences, FiniteSets, TLC

VARIABLES heap, heap0, root, preMode, postMode, stack, ret, status, log, done, used,
          src, env, bound

vars == <<heap, heap0, root, preMode, postMode, stack, ret, status, log, done, used,
          src, env, bound>>

visitorVars == <<heap, heap0, root, preMode, postMode, stack, ret, status, log, done, used>>

binderVars == <<src, env, bound>>

-----------------------------------------------------------------------------
(* Bounds of the model.                                                    *)

\* Largest number of children of the root of the walked tree.
MaxKids == 3

\* Largest number of entries of a MapProperty at the root (its range loop
\* visits them in any order).
MaxKeys == 2

\* Largest number of replacement nodes the visitors hand out in one walk.
MaxRepl == 1

\* Largest number of arguments of a bound Call, operands of an Output or
\* Arithmetic.
MaxArgs == 3

\* Largest number of characters of the field of a resource variable.
MaxField == 3

-----------------------------------------------------------------------------
(* Bound nodes.                                                            *)

\* Go's nil BoundNode; node ids are the positive integers.
Nil == 0

\* Go's nil error.
NoErr == "nil"

\* The errors a visitor can return.
Errors == {"errA", "errB"}

\* The outcome of a Go panic (contract.Failf, a failed type assertion, an
\* index out of range).
Panicked == "panic"

ExprKinds == {"Arithmetic", "Call", "Conditional", "Index", "Literal", "Output",
              "VariableAccess"}

ContainerKinds == {"ListProperty", "MapProperty"}

ExprListKinds == {"Arithmetic", "Call", "Output"}

ListKinds == ExprListKinds \cup {"ListProperty"}

FixedKinds == {"Conditional", "Index"}

LeafKinds == {"Literal", "VariableAccess"}

Range(f) == {f[k] : k \in DOMAIN f}

\* The number of child slots of a fixed-arity node.
Arity(kind) == IF kind = "Conditional" THEN 3 ELSE 2

-----------------------------------------------------------------------------
(* The trees a walk starts from, and the nodes a visitor can substitute.   *)

\* Room for the ids of the children of any root.
MaxWidth == Arity("Conditional") + MaxKids + MaxKeys

RootId == Nil + 1

ChildId(i) == RootId + i

InnerId(j) == RootId + MaxWidth + j

\* The nested Output has no operand (what bindOutput makes of an empty
\* interpolation) or one.
InnerWidths == {0, 1}

FreshLit == RootId + MaxWidth + Cardinality(InnerWidths) + 1

FreshArith == FreshLit + 1

FreshMap == FreshArith + 3

\* The roots of the replacement subtrees a visitor may return.
FreshRoots == {FreshLit, FreshArith, FreshMap}

Node(kind, kids) == [kind |-> kind, kids |-> kids]

\* Replacement subtrees: a Literal, an Arithmetic of two leaves, and an empty
\* MapProperty (a BoundNode that is no BoundExpr).
FreshHeap ==
    (FreshLit :> Node("Literal", <<>>))
    @@ (FreshArith :> Node("Arithmetic", <<FreshArith + 1, FreshArith + 2>>))
    @@ (FreshArith + 1 :> Node("Literal", <<>>))
    @@ (FreshArith + 2 :> Node("VariableAccess", <<>>))
    @@ (FreshMap :> Node("MapProperty", <<>>))

\* The kind of a nested child: an Output, which every parent can hold.
InnerKinds(rk) == IF rk \in LeafKinds THEN {} ELSE {"Output"}

Widths(rk) ==
    IF rk \in LeafKinds THEN {0}
    ELSE IF rk \in FixedKinds THEN {Arity(rk)}
    ELSE IF rk = "MapProperty" THEN 0..MaxKeys
    ELSE 0..MaxKids

\* A tree: a root of kind rk with w children, all leaves except that the
\* first child is a node of kind ik with iw leaf children when ik # "none".
Shapes ==
    {s \in [rk : ExprKinds \cup ContainerKinds, w : 0..MaxWidth,
            ik : {"none", "Output"}, iw : InnerWidths] :
        /\ s.w \in Widths(s.rk)
        /\ s.ik # "none" => (s.w >= 1 /\ s.ik \in InnerKinds(s.rk))
        /\ s.ik = "none" => s.iw = 0}

LeafKind(i) == IF i % 2 = 1 THEN "Literal" ELSE "VariableAccess"

MkHeap(s) ==
    (RootId :> Node(s.rk, [i \in 1..s.w |-> ChildId(i)]))
    @@ [c \in {ChildId(i) : i \in 1..s.w} |->
          IF s.ik # "none" /\ c = ChildId(1)
          THEN Node(s.ik, [j \in 1..s.iw |-> InnerId(j)])
          ELSE Node(LeafKind(c - RootId), <<>>)]
    @@ [g \in {InnerId(j) : j \in 1..s.iw} |-> Node(LeafKind(g - RootId - MaxWidth), <<>>)]
    @@ FreshHeap

-----------------------------------------------------------------------------
(* Visitors.                                                               *)

Result(node, err) == [node |-> node, err |-> err]

NoRet == Result(Nil, "none")

\* IdentityVisitor returns the input node unchanged.
IdentityVisitor(n) == Result(n, NoErr)

\* What a BoundNodeVisitor can return for n: n itself, a replacement, nil
\* (delete), an error with a nil node, or an error together with a node.
VisitorResults(mode, n) ==
    IF mode = "identity" THEN {IdentityVisitor(n)}
    ELSE {Result(n, NoErr), Result(Nil, NoErr)}
         \cup {Result(r, NoErr) : r \in IF Cardinality(used) < MaxRepl
                                        THEN FreshRoots \ used ELSE {}}
         \cup {Result(Nil, e) : e \in Errors}
         \cup {Result(n, e) : e \in Errors}

-----------------------------------------------------------------------------
(* The walk: one frame per active call of VisitBoundNode.                  *)

\* A call of VisitBoundNode(arg): node is n after "n = nn", pc the position
\* in the call, i the loop index of visitBoundExprs/visitBoundNodes (or the
\* slot of a fixed-arity node), nils the loop's counter, vals the visited
\* slots of a fixed-arity node held in locals, todo the map keys the range
\* loop has not reached, asExpr whether the call was made by VisitBoundExpr.
Frame(arg, asExpr) ==
    [arg |-> arg, node |-> Nil, pc |-> "pre", i |-> 1, nils |-> 0, vals |-> <<>>,
     todo |-> {}, asExpr |-> asExpr]

Top == stack[Len(stack)]

Kind(n) == heap[n].kind

\* A visitor invocation as the walk's observer sees it: the slot, the node
\* passed, its children at that moment, and what the visitor returned.
LogEntry(slot, n, r) == [slot |-> slot, arg |-> n, kids |-> heap[n].kids, res |-> r]

\* VisitBoundExpr: a nil node or an error is passed on as (nil, err); any
\* other node is asserted to be a BoundExpr, which panics when it is not.
VisitBoundExpr(r) ==
    IF r.err # NoErr \/ r.node = Nil THEN Result(Nil, r.err)
    ELSE IF Kind(r.node) \in ExprKinds THEN r
    ELSE Result(Nil, Panicked)

\* visitBoundExprs without the compaction of the list.
visitBoundExprsKeepsNils(ns, nils) == ns

\* The tail of visitBoundExprs, after its loop has stored every visited
\* child in ns and counted the nils.
visitBoundExprs(ns, nils) ==
    IF nils = 0 THEN ns
    ELSE IF nils = Len(ns) THEN <<>>
    ELSE SelectSeq(ns, LAMBDA e : e # Nil)

\* visitBoundNodes is the same code over []BoundNode.
visitBoundNodes(ns, nils) ==
    IF nils = 0 THEN ns
    ELSE IF nils = Len(ns) THEN <<>>
    ELSE SelectSeq(ns, LAMBDA e : e # Nil)

\* What each list-bearing visit does with the visited children: "nil" is
\* "return nil, nil", "post" is "n.X = exprs; return post(n)".
visitBoundArithmetic(exprs) == IF Len(exprs) = 0 THEN "nil" ELSE "post"

visitBoundCall(exprs) == "post"

visitBoundOutput(exprs) == IF Len(exprs) = 0 THEN "nil" ELSE "post"

visitBoundListProperty(exprs) == IF Len(exprs) = 0 THEN "nil" ELSE "post"

\* The loop body without the delete: a deleted value stays under its key.
MapStoreKeepsNil(elems, k, ee) == [elems EXCEPT ![k] = ee]

\* visitBoundMapProperty's loop body for key k and visited value ee.
MapStore(elems, k, ee) ==
    IF ee = Nil THEN [j \in DOMAIN elems \ {k} |-> elems[j]]
    ELSE [elems EXCEPT ![k] = ee]

\* A type switch on the node that was passed in, not on pre's result.
DispatchedOriginal(n, nn) == n

\* The node VisitBoundNode dispatches on after "nn, err := pre(n); n = nn".
Dispatched(n, nn) == nn

\* A caller that does not look at the child's error.
ChildErrorIgnored(r) == FALSE

\* "if err != nil { return nil, err }" after a child's visit.
ChildFailed(r) == r.err # NoErr

\* The call of frame f returns r: VisitBoundExpr wraps the result when it
\* made the call; a panic unwinds the whole stack.
Return(f, r) ==
    LET out == IF f.asExpr THEN VisitBoundExpr(r) ELSE r IN
    IF out.err = Panicked
    THEN /\ status' = "panicked"
         /\ stack' = <<>>
         /\ ret' = NoRet
         /\ done' = done
    ELSE /\ status' = IF Len(stack) = 1 THEN "returned" ELSE "running"
         /\ stack' = SubSeq(stack, 1, Len(stack) - 1)
         /\ ret' = out
         /\ done' = done @@ (f.arg :> [node |-> f.node, ret |-> out])

\* contract.Failf panics: the internal-invariant failure of the type switch.
Failf ==
    /\ status' = "failf"
    /\ stack' = <<>>
    /\ ret' = NoRet
    /\ done' = done

Running == status = "running" /\ stack # <<>>

\* VisitBoundNode up to its type switch: call pre, return its error, else
\* switch on the node it returned (nil matches no case: contract.Failf).
VisitBoundNode ==
    /\ Running /\ ret = NoRet /\ Top.pc = "pre"
    /\ \E r \in VisitorResults(preMode, Top.arg) :
         LET n == Dispatched(Top.arg, r.node) IN
         /\ log' = Append(log, LogEntry("pre", Top.arg, r))
         /\ used' = used \cup ({r.node} \cap FreshRoots)
         /\ IF r.err # NoErr
            THEN Return(Top, Result(Nil, r.err))
            ELSE IF n = Nil
            THEN Failf
            ELSE /\ stack' = [stack EXCEPT ![Len(stack)] =
                        [Top EXCEPT !.node = n,
                                    !.pc = IF Kind(n) \in LeafKinds THEN "post" ELSE "kids",
                                    !.todo = IF Kind(n) = "MapProperty"
                                             THEN DOMAIN heap[n].kids ELSE {}]]
                 /\ UNCHANGED <<ret, status, done>>
    /\ UNCHANGED <<heap, heap0, root, preMode, postMode, binderVars>>

\* The next child a visit descends into: the loop of visitBoundExprs and
\* visitBoundNodes, a slot of a Conditional or Index, a key of the map range.
VisitChild ==
    /\ Running /\ ret = NoRet /\ Top.pc = "kids"
    /\ LET n == Top.node
           k == Kind(n) IN
       \/ /\ k \in ListKinds
          /\ Top.i <= Len(heap[n].kids)
          /\ stack' = Append(stack, Frame(heap[n].kids[Top.i], k \in ExprListKinds))
       \/ /\ k \in FixedKinds
          /\ Top.i <= Arity(k)
          /\ stack' = Append(stack, Frame(heap[n].kids[Top.i], TRUE))
       \/ /\ k = "MapProperty"
          /\ \E key \in Top.todo :
               stack' = Append([stack EXCEPT ![Len(stack)] = [Top EXCEPT !.i = key]],
                               Frame(heap[n].kids[key], FALSE))
    /\ UNCHANGED <<heap, heap0, root, preMode, postMode, ret, status, log, done, used,
                   binderVars>>

\* The caller takes the child's result: an error is returned at once as
\* (nil, err); otherwise the result is stored (ns[i] = ee, the local of a
\* fixed slot, the map entry) and the loop goes on.
ChildReturned ==
    /\ Running /\ ret # NoRet /\ Top.pc = "kids"
    /\ LET n == Top.node
           k == Kind(n) IN
       IF ChildFailed(ret)
       THEN /\ Return(Top, Result(Nil, ret.err))
            /\ heap' = heap
       ELSE /\ ret' = NoRet
            /\ UNCHANGED <<status, done>>
            /\ IF k \in ListKinds
               THEN /\ heap' = [heap EXCEPT ![n].kids[Top.i] = ret.node]
                    /\ stack' = [stack EXCEPT ![Len(stack)] =
                          [Top EXCEPT !.i = @ + 1,
                                      !.nils = IF ret.node = Nil THEN @ + 1 ELSE @]]
               ELSE IF k \in FixedKinds
               THEN /\ heap' = heap
                    /\ stack' = [stack EXCEPT ![Len(stack)] =
                          [Top EXCEPT !.i = @ + 1, !.vals = Append(@, ret.node)]]
               ELSE /\ heap' = [heap EXCEPT ![n].kids = MapStore(@, Top.i, ret.node)]
                    /\ stack' = [stack EXCEPT ![Len(stack)] =
                          [Top EXCEPT !.todo = @ \ {Top.i}]]
    /\ UNCHANGED <<heap0, root, preMode, postMode, log, used, binderVars>>

\* What the visit of a list-bearing node of kind k does after its loop.
AfterChildren(k, exprs) ==
    CASE k = "Arithmetic" -> visitBoundArithmetic(exprs)
      [] k = "Call" -> visitBoundCall(exprs)
      [] k = "Output" -> visitBoundOutput(exprs)
      [] k = "ListProperty" -> visitBoundListProperty(exprs)

\* Every child has been visited: the list-bearing visits compact the list
\* and either return (nil, nil) or store it, the fixed-arity visits assign
\* their slots, and the visit goes on to post.
ChildrenDone ==
    /\ Running /\ ret = NoRet /\ Top.pc = "kids"
    /\ LET n == Top.node
           k == Kind(n) IN
       \/ /\ k \in ListKinds
          /\ Top.i > Len(heap[n].kids)
          /\ LET exprs == IF k \in ExprListKinds
                          THEN visitBoundExprs(heap[n].kids, Top.nils)
                          ELSE visitBoundNodes(heap[n].kids, Top.nils) IN
             IF AfterChildren(k, exprs) = "nil"
             THEN /\ Return(Top, Result(Nil, NoErr))
                  /\ heap' = heap
             ELSE /\ heap' = [heap EXCEPT ![n].kids = exprs]
                  /\ stack' = [stack EXCEPT ![Len(stack)] = [Top EXCEPT !.pc = "post"]]
                  /\ UNCHANGED <<ret, status, done>>
       \/ /\ k \in FixedKinds
          /\ Top.i > Arity(k)
          /\ heap' = [heap EXCEPT ![n].kids = Top.vals]
          /\ stack' = [stack EXCEPT ![Len(stack)] = [Top EXCEPT !.pc = "post"]]
          /\ UNCHANGED <<ret, status, done>>
       \/ /\ k = "MapProperty"
          /\ Top.todo = {}
          /\ heap' = heap
          /\ stack' = [stack EXCEPT ![Len(stack)] = [Top EXCEPT !.pc = "post"]]
          /\ UNCHANGED <<ret, status, done>>
    /\ UNCHANGED <<heap0, root, preMode, postMode, log, used, binderVars>>

\* "return post(n)": the call returns whatever the post visitor returns.
CallPost ==
    /\ Running /\ ret = NoRet /\ Top.pc = "post"
    /\ \E r \in VisitorResults(postMode, Top.node) :
         /\ log' = Append(log, LogEntry("post", Top.node, r))
         /\ used' = used \cup ({r.node} \cap FreshRoots)
         /\ Return(Top, r)
    /\ UNCHANGED <<heap, heap0, root, preMode, postMode, binderVars>>

\* No binder input takes part in a walk.
NoAst == [kind |-> "none"]

Init ==
    /\ \E s \in Shapes : heap = MkHeap(s)
    /\ heap0 = heap
    /\ root = RootId
    /\ preMode \in {"identity", "any"}
    /\ postMode \in {"identity", "any"}
    /\ stack = <<Frame(root, FALSE)>>
    /\ ret = NoRet
    /\ status = "running"
    /\ log = <<>>
    /\ done = <<>>
    /\ used = {}
    /\ src = NoAst
    /\ env = NoAst
    /\ bound = NoAst

Next ==
    \/ VisitBoundNode
    \/ VisitChild
    \/ ChildReturned
    \/ ChildrenDone
    \/ CallPost

Spec == Init /\ [][Next]_vars

-----------------------------------------------------------------------------
(* What the claims speak about.                                            *)

LogIdx == 1..Len(log)

Deleted == Result(Nil, NoErr)

\* The walk has seen a visitor return an error.
Failed == \E i \in LogIdx : log[i].res.err # NoErr

\* The children n had when the walk reached it.
Kids0(n) == heap0[n].kids

\* Every child of n has been visited and its call has returned.
KidsVisited(n) == \A c \in Range(Kids0(n)) : c \in DOMAIN done

\* What the visit of the i-th child of list-bearing n returned.
Visited(n) == [i \in 1..Len(Kids0(n)) |-> done[Kids0(n)[i]].ret.node]

\* The visited children of n that were not deleted, in their original order.
Survivors(n) == SelectSeq(Visited(n), LAMBDA e : e # Nil)

PostCalls(n) == {i \in LogIdx : log[i].slot = "post" /\ log[i].arg = n}

PreCalls(n) == {i \in LogIdx : log[i].slot = "pre" /\ log[i].arg = n}

\* The calls of VisitBoundNode that have returned and that dispatched on a
\* node of one of the kinds ks.
Returned(ks) == {a \in DOMAIN done : done[a].node # Nil /\ heap0[done[a].node].kind \in ks}

-----------------------------------------------------------------------------
\* C1: whenever the walk of a list-bearing node (Arithmetic, Call, Output,
\* ListProperty) with at least one child has every child deleted, the call
\* returns (nil, nil) and the post visitor is never invoked on that node.
C1_EmptiedParentDeleted ==
    \A a \in Returned(ListKinds) :
        LET n == done[a].node IN
        (/\ Len(Kids0(n)) >= 1
         /\ KidsVisited(n)
         /\ \A c \in Range(Kids0(n)) : done[c].ret = Deleted)
        => (done[a].ret = Deleted /\ PostCalls(n) = {})

\* C2: the node handed to the post visitor of a list-bearing node holds
\* exactly the visited results of the surviving children, none of them nil,
\* in their original relative order; and so does the node the call returns
\* when post returns it.
C2_SurvivorsInOrder ==
    /\ \A i \in LogIdx :
          (log[i].slot = "post" /\ heap0[log[i].arg].kind \in ListKinds)
          => /\ KidsVisited(log[i].arg)
             /\ log[i].kids = Survivors(log[i].arg)
             /\ Nil \notin Range(log[i].kids)
    /\ \A a \in Returned(ListKinds) :
          (done[a].ret = Result(done[a].node, NoErr))
          => heap[done[a].node].kids = Survivors(done[a].node)

\* C2's case: an Arithmetic of three operands whose middle operand was
\* deleted reaches post with the two others, in order.
C2_Witness ==
    \E i \in LogIdx :
        /\ log[i].slot = "post"
        /\ heap0[log[i].arg].kind = "Arithmetic"
        /\ Len(Kids0(log[i].arg)) = 3
        /\ done[Kids0(log[i].arg)[2]].ret = Deleted
        /\ log[i].kids = <<Kids0(log[i].arg)[1], Kids0(log[i].arg)[3]>>

\* The pre visitor replaced the node of log entry i by another node.
Replaced(i) ==
    /\ log[i].slot = "pre"
    /\ log[i].res.err = NoErr
    /\ log[i].res.node \notin {Nil, log[i].arg}

\* C3: after the pre visitor replaces a node, no visitor is ever invoked on
\* a child of the original, the post visitor is never invoked on the
\* original, the next visitor call is pre on a child of the replacement (or
\* post on the replacement itself when it has no children, as a leaf has
\* none), and a node is returned for the position only by post invoked on
\* the replacement with its visited children.
C3_DescendIntoReplacement ==
    \A i \in LogIdx :
        Replaced(i) =>
            LET n == log[i].arg
                nn == log[i].res.node IN
            /\ \A j \in LogIdx : log[j].arg \notin Range(Kids0(n))
            /\ PostCalls(n) = {}
            /\ Len(log) > i =>
                 IF Kids0(nn) = <<>>
                 THEN log[i + 1].slot = "post" /\ log[i + 1].arg = nn
                 ELSE log[i + 1].slot = "pre" /\ log[i + 1].arg \in Range(Kids0(nn))
            /\ (n \in DOMAIN done /\ done[n].ret.err = NoErr /\ done[n].ret.node # Nil)
                 => \E j \in PostCalls(nn) :
                       /\ j > i
                       /\ log[j].res = done[n].ret
                       /\ heap0[nn].kind \in ListKinds => log[j].kids = Survivors(nn)

\* C3's case: pre replaced a node that has children by the Arithmetic, the
\* operands of the Arithmetic were visited, and post was invoked on it.
C3_Witness ==
    \E i \in LogIdx :
        /\ Replaced(i)
        /\ Kids0(log[i].arg) # <<>>
        /\ log[i].res.node = FreshArith
        /\ \A c \in Range(Kids0(FreshArith)) : PreCalls(c) # {} /\ PostCalls(c) # {}
        /\ PostCalls(FreshArith) # {}

\* C4: a visitor that returns nil without an error deletes the node: the
\* walk raises no internal-invariant failure, and the call of VisitBoundNode
\* for that node returns (nil, nil).
C4_NilDeletes ==
    /\ status # "failf"
    /\ \A a \in DOMAIN done :
          (\/ \E i \in PreCalls(a) : log[i].res = Deleted
           \/ \E i \in PostCalls(done[a].node) : done[a].node # Nil /\ log[i].res = Deleted)
          => done[a].ret = Deleted

\* The visitor call that returned the error, when one did.
FailedCall == log[Len(log)]

\* The failing call is the post visitor of the root position itself.
RootPostFailed ==
    /\ FailedCall.slot = "post"
    /\ root \in DOMAIN done
    /\ FailedCall.arg = done[root].node

\* No visitor is invoked after one has returned an error.
HaltsAtError == \A i \in LogIdx : log[i].res.err # NoErr => i = Len(log)

\* Nothing the walk has written to the tree is undone, or written, once a
\* visitor has returned an error.
NoRollback == Failed => heap' = heap

\* C5 as stated: once a visitor returns an error no visitor is invoked any
\* more, the top-level call returns that error with a nil node, and the
\* tree stays as the walk had rewritten it by then.
C5_ErrorHaltsNilNode ==
    /\ [](/\ HaltsAtError
          /\ (status = "returned" /\ Failed) => ret = Result(Nil, FailedCall.res.err))
    /\ [][NoRollback]_vars

\* C5, amended: as above, except that when the error comes from the post
\* visitor of the root position the top-level call returns the node that
\* post visitor returned along with the error ("return post(n)").
C5_ErrorHalts ==
    /\ [](/\ HaltsAtError
          /\ (status = "returned" /\ Failed) =>
                ret = Result(IF RootPostFailed THEN FailedCall.res.node ELSE Nil,
                             FailedCall.res.err))
    /\ [][NoRollback]_vars

\* C5's case: the second error value came from a visitor below the root
\* after an earlier sibling had been replaced; the walk returned it with a
\* nil node, no post visitor ran on the root, and the replacement is still
\* in the root's list.
C5_Witness ==
    /\ status = "returned"
    /\ Failed
    /\ ~RootPostFailed
    /\ ret = Result(Nil, "errB")
    /\ Len(Kids0(root)) >= 2
    /\ heap[root].kids # Kids0(root)
    /\ FreshLit \in Range(heap[root].kids)
    /\ PostCalls(root) = {}

\* C6: when the post visitor of a MapProperty is invoked, every value of
\* the original map has been visited exactly once, the map holds the
\* visited result of each value under its original key and no entry for a
\* deleted value, and no other key; the map is left so when the walk
\* returns; and a MapProperty whose values were all visited without error
\* always reaches post, also when nothing is left in it.
C6_MapEntries ==
    /\ \A i \in LogIdx :
          (log[i].slot = "post" /\ heap0[log[i].arg].kind = "MapProperty")
          => LET n == log[i].arg IN
             /\ KidsVisited(n)
             /\ \A k \in DOMAIN Kids0(n) :
                   /\ Cardinality(PreCalls(Kids0(n)[k])) = 1
                   /\ IF done[Kids0(n)[k]].ret.node = Nil
                      THEN k \notin DOMAIN log[i].kids
                      ELSE k \in DOMAIN log[i].kids
                           /\ log[i].kids[k] = done[Kids0(n)[k]].ret.node
             /\ DOMAIN log[i].kids \subseteq DOMAIN Kids0(n)
             /\ heap[n].kids = log[i].kids
    /\ \A a \in Returned({"MapProperty"}) :
          done[a].ret.err = NoErr => PostCalls(done[a].node) # {}

\* C6's case: a MapProperty of two entries emptied by the deletion of both
\* values, which post was still invoked on and which the walk returned.
C6_Witness ==
    \E i \in LogIdx :
        /\ log[i].slot = "post"
        /\ heap0[log[i].arg].kind = "MapProperty"
        /\ Cardinality(DOMAIN Kids0(log[i].arg)) = 2
        /\ \A k \in DOMAIN Kids0(log[i].arg) : done[Kids0(log[i].arg)[k]].ret = Deleted
        /\ DOMAIN log[i].kids = {}
        /\ status = "returned"
        /\ ret = Result(log[i].arg, NoErr)

\* The nodes of the walked tree.
TreeNodes == {root} \cup Range(Kids0(root))

\* The empty list-bearing nodes of the tree are Outputs (bindOutput of an
\* interpolation without parts) and Calls (a call without arguments).
BinderEmpties ==
    \A n \in TreeNodes :
        (heap0[n].kind \in {"Arithmetic", "ListProperty"}) => Kids0(n) # <<>>

\* C10: a walk with IdentityVisitor in both slots is a no-op: it raises no
\* failure, returns the root with no error, and leaves every node's
\* children as they were.
C10_IdentityNoOp ==
    (preMode = "identity" /\ postMode = "identity" /\ BinderEmpties)
    => /\ status \in {"running", "returned"}
       /\ heap = heap0
       /\ status = "returned" => ret = Result(root, NoErr)

-----------------------------------------------------------------------------
(* Types and schemas (package il's Type and Schemas).                      *)

\* A Type is the sequence of its constructors, outermost first, ending in
\* a primitive: equality of sequences is structural equality of types.
TypeUnknown == <<"Unknown">>

TypeBool == <<"Bool">>

TypeNumber == <<"Number">>

TypeString == <<"String">>

TypeMap == <<"Map">>

ListOf(t) == <<"List">> \o t

OutputOf(t) == <<"Output">> \o t

IsList(t) == Head(t) = "List"

ElementType(t) == IF IsList(t) THEN Tail(t) ELSE TypeUnknown

\* A schema: the declared type and the schemas of the nested properties.
Schema(type, props) == [type |-> type, props |-> props]

UnknownSchema == Schema(TypeUnknown, <<>>)

\* PropertySchemas(name): the nested schema, or an Unknown-typed schema
\* when the name is not declared.
PropertySchemas(sch, name) ==
    IF name \in DOMAIN sch.props THEN sch.props[name] ELSE UnknownSchema

\* Type() of a schema.
SchemaType(sch) == sch.type

-----------------------------------------------------------------------------
(* The binder's inputs: HIL AST nodes and the binder's tables.             *)

\* A string is the sequence of its characters.
Chars == {"a", "b", "."}

Strings(n) == UNION {[1..k -> Chars] : k \in 0..n}

Fields == Strings(MaxField)

Literal(typex) == [kind |-> "Literal", typex |-> typex, value |-> "v"]

Call(func, args) == [kind |-> "Call", func |-> func, args |-> args]

Output(exprs) == [kind |-> "Output", exprs |-> exprs]

Arithmetic(exprs) == [kind |-> "Arithmetic", exprs |-> exprs]

Conditional(c, t, f) == [kind |-> "Conditional", cond |-> c, true |-> t, false |-> f]

Index(target, key) == [kind |-> "Index", target |-> target, key |-> key]

VariableAccess(tfVar) == [kind |-> "VariableAccess", tfVar |-> tfVar]

\* What config.NewInterpolatedVariable makes of the name of the access.
ResourceVariable(id, field, multi, index) ==
    [kind |-> "ResourceVariable", id |-> id, field |-> field, multi |-> multi,
     index |-> index]

NamedVariable(kind, name) == [kind |-> kind, name |-> name]

\* The functions bindCall knows, and one it does not.
FuncNames == {"base64decode", "base64encode", "chomp", "element", "file", "format",
              "list", "lookup", "map", "split", "uuid"}

\* The sub-expressions of the calls, outputs and arithmetics that are bound:
\* a string, a number, a literal bindLiteral rejects, a list-typed call, and
\* a call bindCall rejects.
ArgNodes == {Literal("TypeString"), Literal("TypeInt"), Literal("TypeList"),
             Call("split", <<>>), Call("uuid", <<>>)}

ArgLists == UNION {[1..k -> ArgNodes] : k \in 0..MaxArgs}

\* The schema of the one resource: {a: String, b: Map {a: Number, b: List of Bool}}.
ResourceSchema ==
    Schema(TypeUnknown,
           (<<"a">> :> Schema(TypeString, <<>>))
           @@ (<<"b">> :> Schema(TypeMap,
                   (<<"a">> :> Schema(TypeNumber, <<>>))
                   @@ (<<"b">> :> Schema(ListOf(TypeBool), <<>>)))))

TFVars ==
    {ResourceVariable(id, f, m, i) :
        id \in {"known", "unknown"}, f \in Fields, m \in BOOLEAN, i \in {-1, 0}}
    \cup {NamedVariable("CountVariable", t) : t \in {"CountValueIndex", "CountValueInvalid"}}
    \cup {NamedVariable(k, nm) : k \in {"LocalVariable", "ModuleVariable"},
                                  nm \in {"known", "unknown"}}
    \cup {NamedVariable(k, "x") : k \in {"PathVariable", "SelfVariable", "SimpleVariable",
                                         "TerraformVariable", "OtherVariable", "ParseError"}}
    \cup {[kind |-> "UserVariable", name |-> nm, elem |-> el] :
            nm \in {"plain", "string", "number", "unknown"}, el \in {"", "e"}}

AstInputs ==
    ArgNodes
    \cup {Literal(t) : t \in {"TypeBool", "TypeFloat"}}
    \cup {Call(f, as) : f \in FuncNames, as \in ArgLists}
    \cup {Output(es) : es \in ArgLists}
    \cup {Arithmetic(es) : es \in ArgLists}
    \cup {Conditional(c, t, f) : c \in {Literal("TypeBool"), Literal("TypeList")},
                                 t \in ArgNodes, f \in ArgNodes}
    \cup {Index(t, k) : t \in ArgNodes, k \in ArgNodes}
    \cup {VariableAccess(v) : v \in TFVars}
    \cup {[kind |-> "Unknown"]}

\* The binder: whether a count index is in scope, and whether the provider
\* of the resource resolves (builder.ensureProvider).
Envs == [hasCountIndex : BOOLEAN, providerOk : BOOLEAN]

-----------------------------------------------------------------------------
(* The binder (propertyBinder).                                            *)

\* A nil BoundExpr.
NilNode == [kind |-> "nil"]

\* What a bind function returns: (node, err).
Bound(node) == [node |-> node, err |-> NoErr]

BindError(err) == [node |-> NilNode, err |-> err]

\* The builder's tables of locals, modules, resources and variables.
Locals == {"known"}

Modules == {"known"}

Resources == {"known"}

\* Each variable node with the type of its default value ("none": no default).
Variables == ("plain" :> <<"none">>) @@ ("string" :> TypeString) @@ ("number" :> TypeNumber)

\* Type() of a bound expression; an Arithmetic and an Output carry no
\* ExprType of their own.
TypeOf(b) == IF b.kind \in {"Arithmetic", "Output"} THEN TypeUnknown ELSE b.type

\* strings.Split(s, "."): the pieces of s between the dots.
RECURSIVE Split(_)
Split(s) ==
    IF \A i \in 1..Len(s) : s[i] # "."
    THEN <<s>>
    ELSE LET i == CHOOSE j \in 1..Len(s) :
                      s[j] = "." /\ \A k \in 1..(j - 1) : s[k] # "."
         IN <<SubSeq(s, 1, i - 1)>> \o Split(SubSeq(s, i + 1, Len(s)))

\* "for _, e := range elements { elemSch = elemSch.PropertySchemas(e) }".
RECURSIVE WalkSchema(_, _)
WalkSchema(sch, elements) ==
    IF elements = <<>> THEN sch
    ELSE WalkSchema(PropertySchemas(sch, Head(elements)), Tail(elements))

\* A resource access whose splat does not make a list of the outputs.
ResourceTypeNoList(t, multi, index) == OutputOf(t)

\* The type of a resource access: OutputOf the leaf's type, and ListOf that
\* for a multi reference without an index.
ResourceType(t, multi, index) ==
    IF multi /\ index = -1 THEN ListOf(OutputOf(t)) ELSE OutputOf(t)

BoundVariableAccess(n, elements, sch, exprType, ilNode) ==
    Bound([kind |-> "VariableAccess", hil |-> n, elements |-> elements, schemas |-> sch,
           type |-> exprType, tfVar |-> n.tfVar, ilNode |-> ilNode])

bindVariableAccess(n) ==
    LET v == n.tfVar IN
    CASE v.kind = "ParseError" -> BindError("invalid interpolation")
      [] v.kind = "CountVariable" ->
            IF v.name # "CountValueIndex" THEN BindError("unsupported count variable")
            ELSE IF ~env.hasCountIndex THEN BindError("no count index in scope")
            ELSE BoundVariableAccess(n, <<>>, UnknownSchema, TypeNumber, "nil")
      [] v.kind = "LocalVariable" ->
            IF v.name \notin Locals THEN BindError("unknown local")
            ELSE BoundVariableAccess(n, <<>>, UnknownSchema, OutputOf(TypeUnknown), "local")
      [] v.kind = "ModuleVariable" ->
            IF v.name \notin Modules THEN BindError("unknown module")
            ELSE BoundVariableAccess(n, <<>>, UnknownSchema, OutputOf(TypeUnknown), "module")
      [] v.kind = "PathVariable" -> BindError("NYI: path variables")
      [] v.kind = "ResourceVariable" ->
            IF v.id \notin Resources THEN BindError("unknown resource")
            ELSE IF ~env.providerOk THEN BindError("provider")
            ELSE LET elements == Split(v.field)
                     elemSch == WalkSchema(ResourceSchema, elements)
                 IN BoundVariableAccess(n, elements, ResourceSchema,
                        ResourceType(SchemaType(elemSch), v.multi, v.index), "resource")
      [] v.kind = "SelfVariable" -> BindError("NYI: self variables")
      [] v.kind = "SimpleVariable" -> BindError("NYI: simple variables")
      [] v.kind = "TerraformVariable" -> BindError("NYI: terraform variables")
      [] v.kind = "UserVariable" ->
            IF v.elem # "" THEN BindError("NYI: user variable elements")
            ELSE IF v.name \notin DOMAIN Variables THEN BindError("unknown variable")
            ELSE BoundVariableAccess(n, <<>>, UnknownSchema,
                    IF Variables[v.name] # <<"none">> /\ Variables[v.name] # TypeString
                    THEN TypeUnknown ELSE TypeString,
                    "variable")
      [] OTHER -> BindError("unexpected variable type")

bindLiteral(n) ==
    CASE n.typex = "TypeBool" -> Bound([kind |-> "Literal", type |-> TypeBool, value |-> n.value])
      [] n.typex \in {"TypeInt", "TypeFloat"} ->
            Bound([kind |-> "Literal", type |-> TypeNumber, value |-> n.value])
      [] n.typex = "TypeString" ->
            Bound([kind |-> "Literal", type |-> TypeString, value |-> n.value])
      [] OTHER -> BindError("Unexpected literal type")

RECURSIVE bindExpr(_)

\* bindExprs: the bound expressions in order, or the first error.
RECURSIVE bindExprs(_)
bindExprs(ns) ==
    IF ns = <<>> THEN [nodes |-> <<>>, err |-> NoErr]
    ELSE LET bn == bindExpr(Head(ns)) IN
         IF bn.err # NoErr THEN [nodes |-> <<>>, err |-> bn.err]
         ELSE LET rest == bindExprs(Tail(ns)) IN
              IF rest.err # NoErr THEN rest
              ELSE [nodes |-> <<bn.node>> \o rest.nodes, err |-> NoErr]

bindArithmetic(n) ==
    LET r == bindExprs(n.exprs) IN
    IF r.err # NoErr THEN BindError(r.err)
    ELSE Bound([kind |-> "Arithmetic", hil |-> n, exprs |-> r.nodes])

BoundCall(n, exprType, args) ==
    Bound([kind |-> "Call", hil |-> n, type |-> exprType, args |-> args])

\* bindCall; "args[0]" of a call of element without arguments is an index
\* out of range, a run-time panic.
bindCall(n) ==
    LET r == bindExprs(n.args)
        args == r.nodes IN
    IF r.err # NoErr THEN BindError(r.err)
    ELSE CASE n.func \in {"base64decode", "base64encode", "chomp", "file", "format"} ->
                 BoundCall(n, TypeString, args)
           [] n.func = "element" ->
                 IF Len(args) = 0 THEN BindError(Panicked)
                 ELSE BoundCall(n, IF IsList(TypeOf(args[1]))
                                   THEN ElementType(TypeOf(args[1])) ELSE TypeUnknown, args)
           [] n.func = "list" -> BoundCall(n, ListOf(TypeUnknown), args)
           [] n.func = "lookup" -> BoundCall(n, TypeUnknown, args)
           [] n.func = "map" ->
                 IF Len(args) % 2 # 0 THEN BindError("the number of arguments must be even")
                 ELSE BoundCall(n, TypeMap, args)
           [] n.func = "split" -> BoundCall(n, ListOf(TypeString), args)
           [] OTHER -> BindError("NYI: call")

bindConditional(n) ==
    LET c == bindExpr(n.cond)
        t == bindExpr(n.true)
        f == bindExpr(n.false) IN
    IF c.err # NoErr THEN BindError(c.err)
    ELSE IF t.err # NoErr THEN BindError(t.err)
    ELSE IF f.err # NoErr THEN BindError(f.err)
    ELSE Bound([kind |-> "Conditional", hil |-> n,
                type |-> IF TypeOf(t.node) # TypeOf(f.node) THEN TypeUnknown
                         ELSE TypeOf(t.node),
                cond |-> c.node, true |-> t.node, false |-> f.node])

bindIndex(n) ==
    LET t == bindExpr(n.target)
        k == bindExpr(n.key) IN
    IF t.err # NoErr THEN BindError(t.err)
    ELSE IF k.err # NoErr THEN BindError(k.err)
    ELSE Bound([kind |-> "Index", hil |-> n,
                type |-> IF IsList(TypeOf(t.node)) THEN ElementType(TypeOf(t.node))
                         ELSE TypeUnknown,
                target |-> t.node, key |-> k.node])

\* bindOutput without the projection of a single-element output.
bindOutputAlwaysWraps(n) ==
    LET r == bindExprs(n.exprs) IN
    IF r.err # NoErr THEN BindError(r.err)
    ELSE Bound([kind |-> "Output", hil |-> n, exprs |-> r.nodes])

bindOutput(n) ==
    LET r == bindExprs(n.exprs) IN
    IF r.err # NoErr THEN BindError(r.err)
    ELSE IF Len(r.nodes) = 1 THEN Bound(r.nodes[1])
    ELSE Bound([kind |-> "Output", hil |-> n, exprs |-> r.nodes])

bindExpr(n) ==
    CASE n.kind = "Arithmetic" -> bindArithmetic(n)
      [] n.kind = "Call" -> bindCall(n)
      [] n.kind = "Conditional" -> bindConditional(n)
      [] n.kind = "Index" -> bindIndex(n)
      [] n.kind = "Literal" -> bindLiteral(n)
      [] n.kind = "Output" -> bindOutput(n)
      [] n.kind = "VariableAccess" -> bindVariableAccess(n)
      [] OTHER -> BindError("unexpected HIL node type")

\* One bind of the input expression.
Bind ==
    /\ bound = NoAst
    /\ bound' = bindExpr(src)
    /\ UNCHANGED <<visitorVars, src, env>>

BindInit ==
    /\ src \in AstInputs
    /\ env \in Envs
    /\ bound = NoAst
    /\ heap = <<>>
    /\ heap0 = <<>>
    /\ root = Nil
    /\ preMode = "identity"
    /\ postMode = "identity"
    /\ stack = <<>>
    /\ ret = NoRet
    /\ status = "returned"
    /\ log = <<>>
    /\ done = <<>>
    /\ used = {}

BindNext == Bind

SpecBind == BindInit /\ [][BindNext]_vars

-----------------------------------------------------------------------------
(* The binder's claims.                                                    *)

\* The input has been bound.
IsBound == bound # NoAst

\* What binding each sub-expression of ns on its own gives.
Each(ns) == [i \in 1..Len(ns) |-> bindExpr(ns[i])]

FailedAt(rs) == {i \in 1..Len(rs) : rs[i].err # NoErr}

First(is) == CHOOSE i \in is : \A j \in is : i <= j

NodesOf(rs) == [i \in 1..Len(rs) |-> rs[i].node]

\* C7: binding an Output whose sub-expressions all bind yields the bound
\* sub-expression itself when there is exactly one, and otherwise (none, two
\* or more) an Output node holding the bound sub-expressions in order; when
\* a sub-expression fails to bind, the bind fails with the first error.
C7_OutputProjection ==
    (IsBound /\ src.kind = "Output") =>
        LET rs == Each(src.exprs) IN
        IF FailedAt(rs) # {}
        THEN bound = BindError(rs[First(FailedAt(rs))].err)
        ELSE IF Len(rs) = 1
        THEN bound = rs[1] /\ bound.node.kind # "Output"
        ELSE /\ bound.err = NoErr
             /\ bound.node.kind = "Output"
             /\ bound.node.exprs = NodesOf(rs)

\* C7's case: an Output of exactly one sub-expression was bound to that
\* sub-expression's bound node, a Call.
C7_Witness ==
    /\ IsBound
    /\ src.kind = "Output"
    /\ Len(src.exprs) = 1
    /\ bound.err = NoErr
    /\ bound.node.kind = "Call"
    /\ bound.node.hil = src.exprs[1]

\* The result type the table of built-in functions gives a call of f whose
\* bound arguments are args, "arity" for a map of an odd number of
\* arguments and "unsupported" for a name that is not in the table.
TableType(f, args) ==
    CASE f \in {"base64decode", "base64encode", "chomp", "file", "format"} -> TypeString
      [] f = "element" -> IF Len(args) >= 1 /\ IsList(TypeOf(args[1]))
                          THEN ElementType(TypeOf(args[1])) ELSE TypeUnknown
      [] f = "list" -> ListOf(TypeUnknown)
      [] f = "lookup" -> TypeUnknown
      [] f = "map" -> IF Len(args) % 2 = 0 THEN TypeMap ELSE <<"arity">>
      [] f = "split" -> ListOf(TypeString)
      [] OTHER -> <<"unsupported">>

\* C8: for every function name and every list of arguments that bind, of
\* any length, binding the Call gives what the table says: an arity error
\* for a map of an odd number of arguments, a "not supported" error for an
\* unknown name, and otherwise a Call of the table's type that keeps the
\* bound arguments in order.
C8_CallTable ==
    (IsBound /\ src.kind = "Call" /\ FailedAt(Each(src.args)) = {}) =>
        LET args == NodesOf(Each(src.args))
            t == TableType(src.func, args) IN
        IF t = <<"arity">> THEN bound = BindError("the number of arguments must be even")
        ELSE IF t = <<"unsupported">> THEN bound = BindError("NYI: call")
        ELSE bound = Bound([kind |-> "Call", hil |-> src, type |-> t, args |-> args])

\* The schema a path of property names leads to, from the last name back.
RECURSIVE LeafSchema(_, _)
LeafSchema(sch, path) ==
    IF path = <<>> THEN sch
    ELSE PropertySchemas(LeafSchema(sch, SubSeq(path, 1, Len(path) - 1)), path[Len(path)])

\* The names of a path joined by dots.
RECURSIVE Joined(_)
Joined(path) ==
    IF Len(path) = 1 THEN path[1]
    ELSE path[1] \o <<".">> \o Joined(Tail(path))

\* The access is to a field of a resource.
ResourceAccess == IsBound /\ src.kind = "VariableAccess" /\ src.tfVar.kind = "ResourceVariable"

\* The elements of the bound access are the field split on the dots.
FieldSplit ==
    /\ Len(bound.node.elements) >= 1
    /\ Joined(bound.node.elements) = src.tfVar.field
    /\ \A i \in 1..Len(bound.node.elements) : "." \notin Range(bound.node.elements[i])

LeafType == SchemaType(LeafSchema(ResourceSchema, bound.node.elements))

Splat == src.tfVar.multi /\ src.tfVar.index = -1

====
